---- MODULE Spec2Model ----
(***************************************************************************)
(* Model of the ecotrack-api resource controllers:                         *)
(*   resources/collection_requests.py  (CollectionRequests,                *)
(*                                      CollectionRequest)                 *)
(*   resources/household.py            (Households, Household)             *)
(* The relational store is a set of rows per table.  Every handler is one  *)
(* atomic action: it reads the token, runs its checks in source order,     *)
(* touches the store, and leaves its HTTP outcome in resp.                 *)
(***************************************************************************)
EXTENDS Integers, FiniteSets, TLC

\* Number of CollectionRequest primary keys the store hands out.
MaxRequests == 2

\* jwt "sub" values of household accounts, and of everybody else.
HouseholdUsers == {"u1", "u2"}
CollectorUsers == {"c1", "c2", "c3"}

ReqIds == 1..MaxRequests
\* user_id is unique per household, so at most one row per household user
\* exists at a time and that many primary keys suffice.
HouseholdIds == 1..Cardinality(HouseholdUsers)

\* Python None, per type of the value it stands in for.
NoRole == "<none>"
NoStatus == "<none>"
NoId == 0
NoMessage == ""

\* get_jwt(): the decoded token of the request, a role claim and a subject.
\* "driver" stands for any role string the handlers do not name, NoRole for
\* a token without a role claim.
Tokens ==
  {[role |-> "admin", sub |-> "a1"], [role |-> "driver", sub |-> "a1"],
   [role |-> NoRole, sub |-> "a1"]}
  \cup {[role |-> "household", sub |-> u] : u \in HouseholdUsers}
  \cup {[role |-> "collector", sub |-> c] : c \in CollectorUsers}

\* request.get_json().get("status") values tried by PATCH.
StatusInputs == {"pending", "completed", "archived", NoStatus}

VARIABLES
  households,   \* HouseholdModel table: rows [id, user_id]
  collectors,   \* CollectorModel table: rows [id, user_id]
  dates,        \* CollectionDateModel table: rows [id, collector_id]
  requests,     \* CollectionRequestModel table:
                \*   rows [id, household_id, collection_date_id, status]
  resp          \* the last handler call: its inputs and its outcome

vars == <<households, collectors, dates, requests, resp>>

DateIds == {d.id : d \in dates}

\* Column default of CollectionRequest.status.
DefaultStatus == "pending"

----------------------------------------------------------------------------
(* Data access helpers                                                     *)

\* Model.query.filter_by(user_id=sub).first(): the matching rows; first()
\* is None exactly when this set is empty.
FilterByUserId(table, sub) == {row \in table : row.user_id = sub}

\* Model.query.get(id): the rows with that primary key (none or one).
QueryGet(table, id) == {row \in table : row.id = id}

Ids(table) == {row.id : row \in table}

----------------------------------------------------------------------------
(* Outcomes                                                                *)

\* A handler's outcome on the CollectionRequest table: status code, message,
\* returned rows, the table afterwards, and what became of the transaction:
\*   "none"         no commit was attempted
\*   "committed"    commit succeeded
\*   "rolled_back"  commit raised, the handler called db.session.rollback()
\*   "failed"       commit raised and the handler let the exception escape
Outcome(code, message, body, reqs, txn) ==
  [code |-> code, message |-> message, body |-> body, requests |-> reqs,
   txn |-> txn]

\* abort(code, message=...): nothing was written.
Abort(code, message, reqs) == Outcome(code, message, {}, reqs, "none")

\* An exception no handler code catches (AttributeError, TypeError, or a
\* SQLAlchemyError outside try/except): the framework answers 500.
Unhandled(reqs, txn) == Outcome(500, "Internal Server Error", {}, reqs, txn)

ListForbidden == "Admin/household privileges required to access resources"
PostForbidden == "Household privileges required to access resources"
WriteForbidden == "Household privilege required to do this action"
InvalidStatus == "Invalid status"
NotFound == "Not Found"
StoreError == "(sqlalchemy error text)"

----------------------------------------------------------------------------
(* resources/collection_requests.py                                        *)

\* Mutant: the household filter is dropped.
FilterByHouseholdId_All(reqs, household_id) == reqs

\* CollectionRequestModel.query.filter_by(household_id=household_id).all()
FilterByHouseholdId(reqs, household_id) ==
  {r \in reqs : r.household_id = household_id}

\* Mutant: the collection-date filter is dropped.
FilterByDateIds_All(reqs, date_ids) == reqs

\* CollectionRequestModel.query.filter(
\*     CollectionRequestModel.collection_date_id.in_(date_ids)).all()
FilterByDateIds(reqs, date_ids) ==
  {r \in reqs : r.collection_date_id \in date_ids}

\* Mutant: a role that matches no branch falls through to the full listing
\* instead of abort(403).
ListRequests_NoAbort(token, hhs, colls, dts, reqs) ==
  IF token.role = "household" THEN
    LET found == FilterByUserId(hhs, token.sub) IN
    IF found = {} THEN Unhandled(reqs, "none")
    ELSE Outcome(200, NoMessage,
                 FilterByHouseholdId(reqs, (CHOOSE h \in found : TRUE).id),
                 reqs, "none")
  ELSE IF token.role = "collector" THEN
    LET found == FilterByUserId(colls, token.sub) IN
    IF found = {} THEN Unhandled(reqs, "none")
    ELSE LET collector_id == (CHOOSE c \in found : TRUE).id
             collector_dates == {d \in dts : d.collector_id = collector_id}
         IN Outcome(200, NoMessage,
                    FilterByDateIds(reqs, {d.id : d \in collector_dates}),
                    reqs, "none")
  ELSE Outcome(200, NoMessage, reqs, reqs, "none")

\* CollectionRequests.get
ListRequests(token, hhs, colls, dts, reqs) ==
  IF token.role = "admin" THEN Outcome(200, NoMessage, reqs, reqs, "none")
  ELSE IF token.role = "household" THEN
    LET found == FilterByUserId(hhs, token.sub) IN
    IF found = {} THEN Unhandled(reqs, "none")     \* None.id
    ELSE LET household_id == (CHOOSE h \in found : TRUE).id IN
         Outcome(200, NoMessage, FilterByHouseholdId(reqs, household_id),
                 reqs, "none")
  ELSE IF token.role = "collector" THEN
    LET found == FilterByUserId(colls, token.sub) IN
    IF found = {} THEN Unhandled(reqs, "none")     \* None.id
    ELSE LET collector_id == (CHOOSE c \in found : TRUE).id
             collector_dates == {d \in dts : d.collector_id = collector_id}
             collector_dates_ids == {d.id : d \in collector_dates}
         IN Outcome(200, NoMessage,
                    FilterByDateIds(reqs, collector_dates_ids), reqs, "none")
  ELSE Abort(403, ListForbidden, reqs)

\* CollectionRequests.post.  data is the loaded payload; data.household_id is
\* NoId when the payload carries no household_id key.  new_id is the primary
\* key the store assigns, db_ok whether add/commit goes through.
PostRequest(token, data, hhs, reqs, new_id, db_ok) ==
  IF token.role # "household" THEN Abort(403, PostForbidden, reqs)
  ELSE
    LET found == FilterByUserId(hhs, token.sub) IN
    IF found = {} THEN Unhandled(reqs, "none")     \* None.id
    ELSE IF data.household_id # NoId
      \* CollectionRequestModel(**data, household_id=...) with the key also in
      \* data: TypeError, multiple values for keyword argument.
      THEN Unhandled(reqs, "none")
    ELSE
      LET household_id == (CHOOSE h \in found : TRUE).id
          collection_request ==
            [id |-> new_id, household_id |-> household_id,
             collection_date_id |-> data.collection_date_id,
             status |-> DefaultStatus]
      IN IF db_ok
           THEN Outcome(201, NoMessage, {collection_request},
                        reqs \cup {collection_request}, "committed")
           ELSE Outcome(400, StoreError, {}, reqs, "rolled_back")

\* CollectionRequest.get
GetRequest(reqs, id) ==
  LET found == QueryGet(reqs, id) IN
  IF found = {} THEN Abort(404, NotFound, reqs)
  ELSE Outcome(200, NoMessage, found, reqs, "none")

\* Mutant: one more status is let through.
ValidStatuses_WithArchived == {"pending", "completed", "archived"}

\* The list new_status is tested against.
ValidStatuses == {"pending", "completed"}

\* Mutant: the row is looked up before the status is validated.
PatchRequest_LookupFirst(token, new_status, id, reqs, db_ok) ==
  IF token.role # "household" THEN Abort(403, WriteForbidden, reqs)
  ELSE
    LET found == QueryGet(reqs, id) IN
    IF found = {} THEN Abort(404, NotFound, reqs)
    ELSE IF new_status \notin ValidStatuses
      THEN Abort(400, InvalidStatus, reqs)
    ELSE
      LET collection_request == CHOOSE r \in found : TRUE
          updated == [collection_request EXCEPT !.status = new_status]
      IN IF db_ok
           THEN Outcome(200, NoMessage, {updated},
                        (reqs \ {collection_request}) \cup {updated},
                        "committed")
           ELSE Unhandled(reqs, "failed")

\* CollectionRequest.patch
PatchRequest(token, new_status, id, reqs, db_ok) ==
  IF token.role # "household" THEN Abort(403, WriteForbidden, reqs)
  ELSE IF new_status \notin ValidStatuses THEN Abort(400, InvalidStatus, reqs)
  ELSE
    LET found == QueryGet(reqs, id) IN
    IF found = {} THEN Abort(404, NotFound, reqs)
    ELSE
      LET collection_request == CHOOSE r \in found : TRUE
          updated == [collection_request EXCEPT !.status = new_status]
      IN IF db_ok
           THEN Outcome(200, NoMessage, {updated},
                        (reqs \ {collection_request}) \cup {updated},
                        "committed")
           ELSE Unhandled(reqs, "failed")          \* no try/except here

\* Mutant: the role check is missing.
DeleteRequest_NoRoleCheck(token, id, reqs, db_ok) ==
  LET found == QueryGet(reqs, id) IN
  IF found = {} THEN Abort(404, NotFound, reqs)
  ELSE IF db_ok
    THEN Outcome(200, "Collection request deleted successfully.", {},
                 reqs \ found, "committed")
    ELSE Unhandled(reqs, "failed")

\* Mutant: query.get() in place of get_or_404(); deleting None raises.
DeleteRequest_PlainGet(token, id, reqs, db_ok) ==
  IF token.role # "household" THEN Abort(403, WriteForbidden, reqs)
  ELSE
    LET found == QueryGet(reqs, id) IN
    IF found = {} THEN Unhandled(reqs, "none")
    ELSE IF db_ok
      THEN Outcome(200, "Collection request deleted successfully.", {},
                   reqs \ found, "committed")
      ELSE Unhandled(reqs, "failed")

\* CollectionRequest.delete
DeleteRequest(token, id, reqs, db_ok) ==
  IF token.role # "household" THEN Abort(403, WriteForbidden, reqs)
  ELSE
    LET found == QueryGet(reqs, id) IN
    IF found = {} THEN Abort(404, NotFound, reqs)
    ELSE IF db_ok
      THEN Outcome(200, "Collection request deleted successfully.", {},
                   reqs \ found, "committed")
      ELSE Unhandled(reqs, "failed")               \* no try/except here

----------------------------------------------------------------------------
(* resources/household.py                                                  *)

HouseholdOutcome(code, message, body, hhs, reqs, txn) ==
  [code |-> code, message |-> message, body |-> body, households |-> hhs,
   requests |-> reqs, txn |-> txn]

\* The commit outcomes the store can give for a new household row: a second
\* row with the same user_id is refused (user_id is unique per household),
\* and any commit may fail for reasons of the store's own.
HouseholdCommitOutcomes(hhs, user_id) ==
  IF FilterByUserId(hhs, user_id) # {} THEN {FALSE} ELSE BOOLEAN

\* What deleting a household row does to the requests that reference it:
\* the relationship either cascades the delete or leaves the rows behind.
OnHouseholdDelete(reqs, household_id, cascade) ==
  IF cascade THEN {r \in reqs : r.household_id # household_id} ELSE reqs

\* Households.get
ListHouseholds(hhs, reqs) ==
  HouseholdOutcome(200, NoMessage, hhs, hhs, reqs, "none")

\* Households.post
PostHousehold(data, hhs, reqs, new_id, db_ok) ==
  LET household == [id |-> new_id, user_id |-> data.user_id] IN
  IF db_ok
    THEN HouseholdOutcome(201, NoMessage, {household}, hhs \cup {household},
                          reqs, "committed")
    ELSE HouseholdOutcome(400, StoreError, {}, hhs, reqs, "rolled_back")

\* Household.get
GetHousehold(hhs, reqs, id) ==
  LET found == QueryGet(hhs, id) IN
  IF found = {} THEN HouseholdOutcome(404, NotFound, {}, hhs, reqs, "none")
  ELSE HouseholdOutcome(200, NoMessage, found, hhs, reqs, "none")

\* Household.delete
DeleteHousehold(id, hhs, reqs, cascade, db_ok) ==
  LET found == QueryGet(hhs, id) IN
  IF found = {} THEN HouseholdOutcome(404, NotFound, {}, hhs, reqs, "none")
  ELSE IF db_ok
    THEN HouseholdOutcome(200, "Household deleted", {}, hhs \ found,
                          OnHouseholdDelete(reqs, id, cascade), "committed")
    ELSE HouseholdOutcome(500, "Internal Server Error", {}, hhs, reqs,
                          "failed")                \* no try/except here

----------------------------------------------------------------------------
(* The state machine: one action per endpoint                              *)

NoToken == [role |-> NoRole, sub |-> ""]
NoPayload == [collection_date_id |-> NoId, household_id |-> NoId]

\* Loaded POST /collection_requests bodies: a collection date, and
\* optionally a household_id key.
Payloads ==
  [collection_date_id : DateIds, household_id : {NoId} \cup HouseholdIds]

Call(op, token, id, new_status, payload, out) ==
  [op |-> op, token |-> token, id |-> id, new_status |-> new_status,
   payload |-> payload, code |-> out.code, message |-> out.message,
   body |-> out.body, txn |-> out.txn]

\* No call is being answered.
Idle ==
  [op |-> "idle", token |-> NoToken, id |-> NoId, new_status |-> NoStatus,
   payload |-> NoPayload, code |-> 0, message |-> NoMessage, body |-> {},
   txn |-> "none"]

\* The collector and collection-date tables.  No handler of these two
\* resources writes them; they hold what other endpoints stored: collector 1
\* and collector 2 each own one date, collector 3 owns none.
CollectorRows ==
  {[id |-> 1, user_id |-> "c1"], [id |-> 2, user_id |-> "c2"],
   [id |-> 3, user_id |-> "c3"]}
CollectionDateRows ==
  {[id |-> 1, collector_id |-> 1], [id |-> 2, collector_id |-> 2]}

Init ==
  /\ households = {}
  /\ collectors = CollectorRows
  /\ dates = CollectionDateRows
  /\ requests = {}
  /\ resp = Idle

\* Each handler runs to completion for one call while no other call is being
\* answered; the store hands out a primary key that is not in use.

RequestsGet ==
  /\ resp = Idle
  /\ \E token \in Tokens :
       LET out == ListRequests(token, households, collectors, dates, requests)
       IN /\ resp' = Call("requests_get", token, NoId, NoStatus, NoPayload, out)
          /\ UNCHANGED <<households, collectors, dates, requests>>

RequestsPost ==
  /\ resp = Idle
  /\ \E token \in Tokens, data \in Payloads, new_id \in ReqIds,
        db_ok \in BOOLEAN :
       LET out == PostRequest(token, data, households, requests, new_id, db_ok)
       IN /\ out.txn # "none" => new_id \notin Ids(requests)
          /\ requests' = out.requests
          /\ resp' = Call("requests_post", token, NoId, NoStatus, data, out)
          /\ UNCHANGED <<households, collectors, dates>>

RequestGet ==
  /\ resp = Idle
  /\ \E token \in Tokens, id \in ReqIds :
       LET out == GetRequest(requests, id)
       IN /\ resp' = Call("request_get", token, id, NoStatus, NoPayload, out)
          /\ UNCHANGED <<households, collectors, dates, requests>>

RequestPatch ==
  /\ resp = Idle
  /\ \E token \in Tokens, id \in ReqIds, new_status \in StatusInputs,
        db_ok \in BOOLEAN :
       LET out == PatchRequest(token, new_status, id, requests, db_ok)
       IN /\ requests' = out.requests
          /\ resp' = Call("request_patch", token, id, new_status, NoPayload, out)
          /\ UNCHANGED <<households, collectors, dates>>

RequestDelete ==
  /\ resp = Idle
  /\ \E token \in Tokens, id \in ReqIds, db_ok \in BOOLEAN :
       LET out == DeleteRequest(token, id, requests, db_ok)
       IN /\ requests' = out.requests
          /\ resp' = Call("request_delete", token, id, NoStatus, NoPayload, out)
          /\ UNCHANGED <<households, collectors, dates>>

HouseholdsGet ==
  /\ resp = Idle
  /\ LET out == ListHouseholds(households, requests)
     IN /\ resp' = Call("households_get", NoToken, NoId, NoStatus, NoPayload, out)
        /\ UNCHANGED <<households, collectors, dates, requests>>

HouseholdsPost ==
  /\ resp = Idle
  /\ \E user_id \in HouseholdUsers, new_id \in HouseholdIds :
       \E db_ok \in HouseholdCommitOutcomes(households, user_id) :
         LET data == [user_id |-> user_id]
             out == PostHousehold(data, households, requests, new_id, db_ok)
         IN /\ out.txn = "committed" => new_id \notin Ids(households)
            /\ households' = out.households
            /\ resp' = Call("households_post", NoToken, NoId, NoStatus, data, out)
            /\ UNCHANGED <<collectors, dates, requests>>

HouseholdGet ==
  /\ resp = Idle
  /\ \E id \in HouseholdIds :
       LET out == GetHousehold(households, requests, id)
       IN /\ resp' = Call("household_get", NoToken, id, NoStatus, NoPayload, out)
          /\ UNCHANGED <<households, collectors, dates, requests>>

HouseholdDelete ==
  /\ resp = Idle
  /\ \E id \in HouseholdIds, cascade \in BOOLEAN, db_ok \in BOOLEAN :
       LET out == DeleteHousehold(id, households, requests, cascade, db_ok)
       IN /\ households' = out.households
          /\ requests' = out.requests
          /\ resp' = Call("household_delete", NoToken, id, NoStatus, NoPayload, out)
          /\ UNCHANGED <<collectors, dates>>

\* The handler has returned or aborted: the response goes out and the next
\* call can be served.
SendResponse ==
  /\ resp # Idle
  /\ resp' = Idle
  /\ UNCHANGED <<households, collectors, dates, requests>>

Next ==
  \/ RequestsGet
  \/ RequestsPost
  \/ RequestGet
  \/ RequestPatch
  \/ RequestDelete
  \/ HouseholdsGet
  \/ HouseholdsPost
  \/ HouseholdGet
  \/ HouseholdDelete
  \/ SendResponse

Spec == Init /\ [][Next]_vars

----------------------------------------------------------------------------
(* Properties                                                              *)

\* The ids of the households whose user_id is the given subject.
HouseholdIdsOf(sub) == {h.id : h \in {x \in households : x.user_id = sub}}

\* The ids of the collection dates owned by a collector whose user_id is the
\* given subject.
DateIdsOf(sub) ==
  {d.id : d \in {x \in dates :
                   \E c \in collectors :
                      c.user_id = sub /\ x.collector_id = c.id}}

WriteOps == {"requests_post", "request_patch", "request_delete"}

\* C1: a POST /collection_requests by a household caller whose subject
\* resolves to household H has the same outcome whether or not the payload
\* carries a household_id: the request is created with household_id = H.id
\* (or the store refuses the commit and the handler rolls back); a
\* client-supplied household_id never changes that outcome.
C1_ClientHouseholdIdIgnored ==
  \A h \in households :
    (resp.op = "requests_post" /\ resp.token.role = "household"
       /\ h.user_id = resp.token.sub)
    => \/ /\ resp.code = 201
          /\ resp.body # {}
          /\ \A r \in resp.body : r \in requests /\ r.household_id = h.id
       \/ resp.code = 400 /\ resp.txn = "rolled_back"

\* C2: a PATCH or DELETE on request r by a caller whose household id differs
\* from r.household_id never changes or removes r.
C2_OnlyOwnerWrites ==
  [][\A r \in requests :
       (resp'.op \in {"request_patch", "request_delete"}
          /\ resp'.id = r.id
          /\ r.household_id \notin HouseholdIdsOf(resp'.token.sub))
       => r \in requests']_vars

\* C3: the list returned to a household caller is exactly the stored requests
\* whose household_id is the id of the household with the caller's subject.
C3_HouseholdListExact ==
  (resp.op = "requests_get" /\ resp.token.role = "household"
     /\ HouseholdIdsOf(resp.token.sub) # {})
  => /\ resp.code = 200
     /\ resp.body =
          {r \in requests : r.household_id \in HouseholdIdsOf(resp.token.sub)}

\* A household lists while the store holds a request of its own and one of
\* another household.
C3_Witness ==
  /\ resp.op = "requests_get" /\ resp.token.role = "household"
  /\ resp.code = 200
  /\ resp.body # {}
  /\ requests \ resp.body # {}

\* C4: the list returned to a collector caller is exactly the stored requests
\* whose collection_date_id is the id of a collection date of that collector;
\* it is empty when the collector owns no collection date.
C4_CollectorListExact ==
  (resp.op = "requests_get" /\ resp.token.role = "collector")
  => /\ resp.code = 200
     /\ resp.body =
          {r \in requests : r.collection_date_id \in DateIdsOf(resp.token.sub)}
     /\ DateIdsOf(resp.token.sub) = {} => resp.body = {}

\* A collector lists while the store holds a request on one of its dates and
\* one on a date of another collector.
C4_Witness ==
  /\ resp.op = "requests_get" /\ resp.token.role = "collector"
  /\ resp.code = 200
  /\ resp.body # {}
  /\ requests \ resp.body # {}

C6_NonHouseholdWritesForbidden ==
  [][(resp'.op \in WriteOps /\ resp'.token.role # "household")
     => /\ resp'.code = 403
        /\ requests' = requests]_vars

\* An admin's DELETE of a stored request was refused.
C6_Witness ==
  /\ resp.op = "request_delete" /\ resp.token.role = "admin"
  /\ resp.id \in Ids(requests)
  /\ resp.code = 403

\* C7: no committing operation ends with a failed transaction that was not
\* rolled back.
C7_RollbackOnFailure ==
  resp.op \in WriteOps \cup {"households_post", "household_delete"}
  => resp.txn # "failed"

\* C8: a household DELETE of an id that is not stored answers 404, leaves
\* the store unchanged, and getById of that id is 404; after a successful
\* DELETE, getById of that id is 404.
C8_DeleteNotFound ==
  [][(resp'.op = "request_delete" /\ resp'.token.role = "household")
     => /\ resp'.id \notin Ids(requests)
           => /\ resp'.code = 404
              /\ requests' = requests
              /\ GetRequest(requests', resp'.id).code = 404
        /\ resp'.code = 200
           => /\ resp'.id \in Ids(requests)
              /\ GetRequest(requests', resp'.id).code = 404]_vars

\* A household's DELETE of an id that is not stored, with another request
\* in the store, answered 404.
C8_Witness ==
  /\ resp.op = "request_delete" /\ resp.token.role = "household"
  /\ resp.id \notin Ids(requests)
  /\ requests # {}
  /\ resp.code = 404

\* C9: the list returned to an admin is the whole request table; a caller
\* whose role is none of admin, household, collector gets 403 and no record.
C9_AdminAllOthersForbidden ==
  resp.op = "requests_get"
  => /\ resp.token.role = "admin"
        => resp.code = 200 /\ resp.body = requests
     /\ resp.token.role \notin {"admin", "household", "collector"}
        => resp.code = 403 /\ resp.body = {}

\* An admin lists requests of two different households.
C9_Witness ==
  /\ resp.op = "requests_get" /\ resp.token.role = "admin"
  /\ resp.body = requests
  /\ \E r1, r2 \in requests : r1.household_id # r2.household_id

\* C10: PATCH checks role, then status, then existence: a non-household
\* caller gets 403 whatever the status and id, a household caller with an
\* invalid status gets 400 whatever the id, 404 is answered only when role
\* and status are valid and the id is absent; these three outcomes leave the
\* store unchanged.
C10_PatchCheckOrder ==
  [][resp'.op = "request_patch"
     => /\ resp'.token.role # "household" => resp'.code = 403
        /\ (resp'.token.role = "household"
              /\ resp'.new_status \notin {"pending", "completed"})
           => resp'.code = 400
        /\ (resp'.token.role = "household"
              /\ resp'.new_status \in {"pending", "completed"}
              /\ resp'.id \notin Ids(requests))
           => resp'.code = 404
        /\ resp'.code = 404
           => /\ resp'.token.role = "household"
              /\ resp'.new_status \in {"pending", "completed"}
              /\ resp'.id \notin Ids(requests)
        /\ resp'.code \in {400, 403, 404} => requests' = requests]_vars

\* A household PATCH with an invalid status on an id that is not stored
\* answered 400.
C10_Witness ==
  /\ resp.op = "request_patch" /\ resp.token.role = "household"
  /\ resp.new_status \notin {"pending", "completed"}
  /\ resp.id \notin Ids(requests)
  /\ resp.code = 400

====
